---- MODULE Spec2Model ----
(***************************************************************************)
(* Inspection-request lifecycle of the Autoscope backend.                  *)
(*                                                                         *)
(* The store holds four collections: users, the request-id counter,        *)
(* inspection requests and inspection records.  Every service method is a  *)
(* handler invocation that runs as a sequence of steps; one step is one    *)
(* database operation (a read, an update, a save) together with the        *)
(* synchronous code that follows it up to the next await.  A step is an    *)
(* operator from the store d, the invocation's local state s and the time  *)
(* t to the store and local state after it.  request.save() writes only    *)
(* the paths the handler modified on the document it loaded (Mongoose      *)
(* sends $set of the modified paths, filtered by _id only).                *)
(*                                                                         *)
(* Sequential execution runs all steps of a handler in one transition;     *)
(* concurrent execution interleaves the steps of several invocations.      *)
(***************************************************************************)
EXTENDS Integers, Sequences, FiniteSets, TLC

\* ---------------------------------------------------------------- bounds
\* request documents in the lifecycle specifications
MaxRequests == 1
\* request documents in the specifications of createRequest and of two requests
MaxCreated == 2
MaxInspections == 1
MaxClock == 1
\* values handed out by Counter.getNextSequence
MaxIssued == 6
\* checklist items of the first type of a request body
MaxItems == 3
NumProcs == 2

\* ------------------------------------------------------------- constants
\* let retries = 3 (createRequest)
Retries == 3
\* requestId maxlength in inspectionRequestSchema
RequestIdMaxLen == 20
\* .substring(0, 20) of the sanitized model in _generateRequestId
ModelMaxLen == 20
\* .substring(0, 3).padEnd(3, 'X') of the make, padStart(3, '0') of the sequence
MakeLen == 3
SeqPad == 3

Null == "null"
NoTime == -1

Procs == 1 .. NumProcs

\* --------------------------------------------------------------- strings
\* Strings that the code inspects character by character are tuples of
\* one-character strings.
UpperLetters == {"A","C","E","M","O","R","T","V","W","X","Y"}
DigitChars == <<"0","1","2","3","4","5","6","7","8","9">>
DigitSet == {DigitChars[i] : i \in 1..10}

ToUpper(c) ==
  CASE c = "a" -> "A" [] c = "c" -> "C" [] c = "e" -> "E" [] c = "m" -> "M"
    [] c = "o" -> "O" [] c = "r" -> "R" [] c = "t" -> "T" [] c = "v" -> "V"
    [] c = "w" -> "W" [] c = "x" -> "X" [] c = "y" -> "Y"
    [] OTHER -> c

UpperCase(s) == [i \in 1..Len(s) |-> ToUpper(s[i])]

\* .replace(/[^A-Z0-9]/g, '')
StripNonAlnum(s) == SelectSeq(s, LAMBDA c : c \in UpperLetters \cup DigitSet)

Substring(s, n) == IF Len(s) <= n THEN s ELSE SubSeq(s, 1, n)

RECURSIVE PadEnd(_, _, _)
PadEnd(s, n, c) == IF Len(s) >= n THEN s ELSE PadEnd(Append(s, c), n, c)

RECURSIVE PadStart(_, _, _)
PadStart(s, n, c) == IF Len(s) >= n THEN s ELSE PadStart(<<c>> \o s, n, c)

\* String(sequence)
RECURSIVE NumToStr(_)
NumToStr(n) ==
  IF n < 10 THEN <<DigitChars[n + 1]>>
  ELSE Append(NumToStr(n \div 10), DigitChars[(n % 10) + 1])

UNK == <<"U","N","K">>

\* _generateRequestId(sequence, vehicleInfo)
GenerateRequestId(sequence, vehicleInfo) ==
  LET m0 == Substring(StripNonAlnum(UpperCase(
                IF vehicleInfo.model = <<>> THEN UNK ELSE vehicleInfo.model)), ModelMaxLen)
      model == IF m0 = <<>> THEN UNK ELSE m0
      make == PadEnd(Substring(UpperCase(
                IF vehicleInfo.make = <<>> THEN UNK ELSE vehicleInfo.make), MakeLen), MakeLen, "X")
  IN  model \o <<"_">> \o make \o <<"_">> \o PadStart(NumToStr(sequence), SeqPad, "0")

\* the digits after the last underscore of a request id, as a number
RECURSIVE StrToNum(_)
StrToNum(s) ==
  IF s = <<>> THEN 0
  ELSE 10 * StrToNum(SubSeq(s, 1, Len(s) - 1))
       + (CHOOSE d \in 0..9 : DigitChars[d + 1] = s[Len(s)])

EmbeddedSeq(id) ==
  LET us == {i \in 1..Len(id) : id[i] = "_"}
      last == CHOOSE i \in us : \A j \in us : j <= i
  IN  StrToNum(SubSeq(id, last + 1, Len(id)))

\* ----------------------------------------------------------------- input
Camry == [model |-> <<"C","a","m","r","y">>, make |-> <<"T","o","y","o","t","a">>]
E2vw == [model |-> <<"e","-","2">>, make |-> <<"v","w">>]
Vehicles == {Camry, E2vw}

Emails == {"e1", "eb"}
Reasons == {"r"}
InspectionStatuses == {"draft", "completed", "submitted"}

\* ----------------------------------------------------------------- users
\* NX is an id no user document has; I3 is an inspector who is not active
StaffIds == {"AD", "I1", "I2", "I3"}
CustomerPool == <<"U1", "U2">>
UserIds == StaffIds \cup {"UB", "NX"} \cup {CustomerPool[i] : i \in 1..Len(CustomerPool)}

NoUser == [exists |-> FALSE, email |-> Null, role |-> Null, status |-> Null,
           is_assigned |-> FALSE]

StaffUser(r) == [exists |-> TRUE, email |-> Null, role |-> r, status |-> "active",
                 is_assigned |-> FALSE]

\* --------------------------------------------------------------- ratings
\* Ratings are counted in hundredths of a point: 250 stands for 2.5.
Scale == 100

STATUS_RATING_MAP ==
  [st \in {"Excellent", "Good", "Average", "Poor", "Fair", "Not Checked",
           "Not Applicable"} |->
     CASE st = "Excellent" -> 5 * Scale
       [] st = "Good" -> 4 * Scale
       [] st = "Average" -> 3 * Scale
       [] st = "Poor" -> 1 * Scale
       [] st = "Fair" -> (5 * Scale) \div 2
       [] OTHER -> 0]

STATUS_EXCLUDED_FROM_AVERAGE == {"Not Applicable", "Not Checked"}

\* a checklist item of a request body: its status and the rating sent with it
Item(st, r) == [status |-> st, rating |-> r]

\* the rating path's setter: Math.min(5, Math.max(0, n))
RatingSet(v) == IF v < 0 THEN 0 ELSE IF v > 5 * Scale THEN 5 * Scale ELSE v

\* Math.round((total / n) * 100) / 100 for total >= 0, n > 0.  On the ratings
\* and numbers of items used here total / n has no binary rounding error that
\* reaches the second decimal, so the exact quotient rounds the same way.
Round2(total, n) == (2 * total + n) \div (2 * n)

\* items.filter(item => !excludedSet.has(item.status))
IncludedAll(items) == items
Included(items) ==
  SelectSeq(items, LAMBDA item : item.status \notin STATUS_EXCLUDED_FROM_AVERAGE)

\* reduce((sum, x) => sum + x[path], 0)
RECURSIVE Total(_, _)
Total(xs, path) ==
  IF xs = <<>> THEN 0 ELSE xs[1][path] + Total(Tail(xs), path)

\* the pre-save hook's loop body for one type
TypeAverage(typeInspection) ==
  LET included == Included(typeInspection.checklistItems)
  IN  IF Len(typeInspection.checklistItems) = 0 THEN typeInspection.averageRating
      ELSE IF Len(included) > 0
      THEN Round2(Total(included, "rating"), Len(included))
      ELSE 0

\* totalTypeRating / this.types.length, through the overallRating setter
OverallByItems(types) ==
  LET all == [i \in 1..Len(types) |->
                [averageRating |-> Total(Included(types[i].checklistItems), "rating"),
                 n |-> Len(Included(types[i].checklistItems))]]
  IN  IF Total(all, "n") = 0 THEN 0
      ELSE Round2(Total(all, "averageRating"), Total(all, "n"))
OverallRating(types) == Round2(Total(types, "averageRating"), Len(types))

\* inspectionSchema.pre('save') at time t
PreSave(inspection, t) ==
  LET types == [i \in 1..Len(inspection.types) |->
                  [inspection.types[i] EXCEPT !.averageRating =
                     TypeAverage(inspection.types[i])]]
  IN  [inspection EXCEPT
         !.types = types,
         !.overallRating = IF Len(types) > 0 THEN OverallRating(types) ELSE @,
         !.completedAt = IF inspection.status \in {"completed", "submitted"}
                            /\ @ = NoTime
                         THEN t ELSE @]

\* what the schema's setters make of the types of a request body
CastTypes(types) ==
  [i \in 1..Len(types) |->
     [checklistItems |->
        [j \in 1..Len(types[i].checklistItems) |->
           [types[i].checklistItems[j] EXCEPT !.rating = RatingSet(@)]],
      averageRating |-> Round2(types[i].averageRating, 1)]]

\* the types every request body of the request specifications carries
DefaultTypes ==
  <<[checklistItems |-> <<Item("Good", 4 * Scale)>>, averageRating |-> 0]>>

\* a deleted inspection: Inspection.findById finds nothing
NoInspection == [inspectorId |-> Null, status |-> "deleted", types |-> <<>>,
                 overallRating |-> 0, completedAt |-> NoTime]

\* ------------------------------------------------------------- documents
\* A request document: the paths of inspectionRequestSchema, and the three
\* properties the checklist service reads and assigns on a loaded document
\* although the schema declares no such path.  NoTime stands for a path or
\* property that is not set.
EmptyDoc == [requestId |-> <<>>, userId |-> Null, vehicleInfo |-> Camry,
             status |-> "pending", assignedInspectorId |-> Null,
             assignedAt |-> NoTime, adminApprovedAt |-> NoTime,
             inspectionId |-> 0, cancelledAt |-> NoTime, cancelledReason |-> "",
             inspectionStartTime |-> NoTime, inspectionEndTime |-> NoTime,
             timeTaken |-> NoTime]

\* the paths inspectionRequestSchema declares
SchemaPaths ==
  DOMAIN EmptyDoc \ {"inspectionStartTime", "inspectionEndTime", "timeTaken"}

NewRequest(id, uid, v) == [EmptyDoc EXCEPT !.requestId = id, !.userId = uid,
                                           !.vehicleInfo = v]

\* document.save(): $set of the schema paths whose value differs from the
\* loaded one; a property that is no schema path is not part of the document
SaveDoc(stored, loaded, doc) ==
  [f \in DOMAIN stored |->
     IF f \in SchemaPaths /\ doc[f] # loaded[f] THEN doc[f] ELSE stored[f]]

\* before: what an invocation found when it was called, recorded in the
\* specification that follows failing calls (a history value, no variable
\* of the code)
NoSnapshot == [flags |-> <<>>, request |-> EmptyDoc]

IdleProc == [pc |-> "idle", op |-> "none", rid |-> 0, caller |-> Null,
             target |-> Null, reason |-> "", email |-> Null, vehicleInfo |-> Camry,
             istatus |-> "draft", iid |-> 0, doc |-> EmptyDoc, loaded |-> EmptyDoc,
             res |-> "none", retries |-> 0, seq |-> 0, requestId |-> <<>>,
             ret |-> "none", user |-> Null, valid |-> TRUE, before |-> NoSnapshot,
             types |-> DefaultTypes]

\* issued: the values Counter.getNextSequence has returned, in order
\* connection: mongoose.connection.readyState, the handler module's
\* dbConnected, and whether the latest handler invocation called connectDB
VARIABLES users, counter, issued, requests, inspections, now, procs, connection

vars == <<users, counter, issued, requests, inspections, now, procs, connection>>

Init ==
  /\ users = [u \in UserIds |->
                CASE u = "AD" -> StaffUser("admin")
                  [] u \in {"I1", "I2"} -> StaffUser("inspector")
                  [] u = "I3" -> [StaffUser("inspector") EXCEPT !.status = "inactive"]
                  [] u = "UB" -> [exists |-> TRUE, email |-> "eb", role |-> "user",
                                  status |-> "blocked", is_assigned |-> FALSE]
                  [] OTHER -> NoUser]
  /\ counter = [exists |-> FALSE, sequence |-> 0]
  /\ issued = <<>>
  /\ requests = <<>>
  /\ inspections = <<>>
  /\ now = 0
  /\ procs = [p \in Procs |-> IdleProc]
  /\ connection = [readyState |-> 0, dbConnected |-> FALSE, connectCalled |-> FALSE]


\* ------------------------------------------------------------- utilities
\* the store as one value
DB == [users |-> users, counter |-> counter, issued |-> issued,
       requests |-> requests, inspections |-> inspections]

\* the handler goes on with local state s
Cont(d, s) == [d |-> d, s |-> s]

\* the handler returns ("ok") or throws (the error's class)
Fin(d, s, res) ==
  [d |-> d, s |-> [s EXCEPT !.pc = "done", !.res = res,
                            !.doc = EmptyDoc, !.loaded = EmptyDoc]]

Call(op, pc) == [IdleProc EXCEPT !.op = op, !.pc = pc]

Exists(d, rid) == rid \in 1..Len(d.requests)

\* User.findByIdAndUpdate(id, { is_assigned: v }); no document, no effect
SetAssigned(us, id, v) ==
  IF id \in UserIds /\ us[id].exists
  THEN [us EXCEPT ![id].is_assigned = v]
  ELSE us

\* request.save() of the document loaded as s.loaded and modified to s.doc
SaveRequest(d, s) ==
  [d EXCEPT !.requests[s.rid] = SaveDoc(@, s.loaded, s.doc)]

\* ------------------------------------------------------- assignInspector
\* the assignment written to set the status on every call
AssignMutateReset(doc, inspectorId, t) ==
  [doc EXCEPT !.assignedInspectorId = inspectorId, !.assignedAt = t,
              !.status = "assigned"]

\* what assignInspector sets on the loaded document before request.save()
AssignMutate(doc, inspectorId, t) ==
  [doc EXCEPT !.assignedInspectorId = inspectorId,
              !.assignedAt = t,
              !.status = IF doc.status = "pending" THEN "assigned" ELSE doc.status]

\* role check, InspectionRequest.findById
AssignFindRequest(d, s, t) ==
  IF d.users[s.caller].role # "admin" THEN Fin(d, s, "Forbidden")
  ELSE IF ~Exists(d, s.rid) THEN Fin(d, s, "NotFound")
  ELSE Cont(d, [s EXCEPT !.pc = "findInspector", !.doc = d.requests[s.rid],
                         !.loaded = d.requests[s.rid]])

\* the checks without the one on the inspector's status
InspectorCheckNoStatus(inspector) ==
  IF ~inspector.exists THEN "NotFound"
  ELSE IF inspector.role # "inspector" THEN "BadRequest"
  ELSE "ok"

\* the checks of assignInspector on the user it loaded
InspectorCheck(inspector) ==
  IF ~inspector.exists THEN "NotFound"
  ELSE IF inspector.role # "inspector" THEN "BadRequest"
  ELSE IF inspector.status # "active" THEN "BadRequest"
  ELSE "ok"

\* the previous inspector is left as they are
AssignFindInspectorKeep(d, s, t) ==
  LET check == InspectorCheck(d.users[s.target])
  IN  IF check # "ok" THEN Fin(d, s, check)
      ELSE Cont(d, [s EXCEPT !.pc = "save", !.doc = AssignMutate(s.doc, s.target, t)])

\* User.findById(inspectorId), the checks on it, previousInspectorId
AssignFindInspector(d, s, t) ==
  LET prev == s.doc.assignedInspectorId
      check == InspectorCheck(d.users[s.target])
  IN  IF check # "ok" THEN Fin(d, s, check)
      ELSE IF prev # Null /\ prev # s.target
      THEN Cont(d, [s EXCEPT !.pc = "freePrevious"])
      ELSE Cont(d, [s EXCEPT !.pc = "save", !.doc = AssignMutate(s.doc, s.target, t)])

\* User.findByIdAndUpdate(previousInspectorId, { is_assigned: false })
AssignFreePrevious(d, s, t) ==
  Cont([d EXCEPT !.users = SetAssigned(@, s.doc.assignedInspectorId, FALSE)],
       [s EXCEPT !.pc = "save", !.doc = AssignMutate(s.doc, s.target, t)])

\* request.save()
AssignSave(d, s, t) == Cont(SaveRequest(d, s), [s EXCEPT !.pc = "markAssigned"])

\* User.findByIdAndUpdate(inspectorId, { is_assigned: true })
AssignMarkAssigned(d, s, t) ==
  Fin([d EXCEPT !.users = SetAssigned(@, s.target, TRUE)], s, "ok")

AssignStep(d, s, t) ==
  CASE s.pc = "findRequest" -> AssignFindRequest(d, s, t)
    [] s.pc = "findInspector" -> AssignFindInspector(d, s, t)
    [] s.pc = "freePrevious" -> AssignFreePrevious(d, s, t)
    [] s.pc = "save" -> AssignSave(d, s, t)
    [] s.pc = "markAssigned" -> AssignMarkAssigned(d, s, t)

AssignCall(rid, target, caller) ==
  [Call("assignInspector", "findRequest") EXCEPT
     !.rid = rid, !.target = target, !.caller = caller]

\* -------------------------------------------------------- approveRequest
\* the guard written as "not yet in progress"
ApproveAllowedOpen(status) == status \in {"pending", "assigned"}

\* the guard of approveRequest on the loaded status
ApproveAllowed(status) == status = "pending"

\* role check, InspectionRequest.findById, the guard, adminApprovedAt
ApproveFind(d, s, t) ==
  IF d.users[s.caller].role # "admin" THEN Fin(d, s, "Forbidden")
  ELSE IF ~Exists(d, s.rid) THEN Fin(d, s, "NotFound")
  ELSE IF ~ApproveAllowed(d.requests[s.rid].status) THEN Fin(d, s, "BadRequest")
  ELSE Cont(d, [s EXCEPT !.pc = "save", !.loaded = d.requests[s.rid],
                         !.doc = [d.requests[s.rid] EXCEPT !.adminApprovedAt = t]])

ApproveSave(d, s, t) == Fin(SaveRequest(d, s), s, "ok")

ApproveStep(d, s, t) ==
  CASE s.pc = "findRequest" -> ApproveFind(d, s, t)
    [] s.pc = "save" -> ApproveSave(d, s, t)

ApproveCall(rid, caller) ==
  [Call("approveRequest", "findRequest") EXCEPT !.rid = rid, !.caller = caller]

\* --------------------------------------------------------- rejectRequest
\* rejectRequest without its guard
RejectAllowedAlways(status) == TRUE

\* the guard of rejectRequest on the loaded status
RejectAllowed(status) == status # "cancelled"

\* what rejectRequest sets on the loaded document
RejectMutate(doc, reason, t) ==
  [doc EXCEPT !.status = "cancelled", !.cancelledAt = t, !.cancelledReason = reason]

RejectFind(d, s, t) ==
  IF d.users[s.caller].role # "admin" THEN Fin(d, s, "Forbidden")
  ELSE IF ~Exists(d, s.rid) THEN Fin(d, s, "NotFound")
  ELSE IF ~RejectAllowed(d.requests[s.rid].status) THEN Fin(d, s, "BadRequest")
  ELSE Cont(d, [s EXCEPT !.pc = IF d.requests[s.rid].assignedInspectorId # Null
                                THEN "freeInspector" ELSE "save",
                         !.loaded = d.requests[s.rid],
                         !.doc = RejectMutate(d.requests[s.rid], s.reason, t)])

\* User.findByIdAndUpdate(request.assignedInspectorId, { is_assigned: false })
RejectFreeInspector(d, s, t) ==
  Cont([d EXCEPT !.users = SetAssigned(@, s.doc.assignedInspectorId, FALSE)],
       [s EXCEPT !.pc = "save"])

RejectSave(d, s, t) == Fin(SaveRequest(d, s), s, "ok")

RejectStep(d, s, t) ==
  CASE s.pc = "findRequest" -> RejectFind(d, s, t)
    [] s.pc = "freeInspector" -> RejectFreeInspector(d, s, t)
    [] s.pc = "save" -> RejectSave(d, s, t)

RejectCall(rid, reason, caller) ==
  [Call("rejectRequest", "findRequest") EXCEPT
     !.rid = rid, !.reason = reason, !.caller = caller]

\* --------------------------------------------------------- updateRequest
\* updateRequest without the check of the status
UpdateFindAnyStatus(d, s, t) ==
  IF ~Exists(d, s.rid) THEN Fin(d, s, "NotFound")
  ELSE IF d.users[s.caller].role # "admin" /\ s.caller # d.requests[s.rid].userId
  THEN Fin(d, s, "Forbidden")
  ELSE Cont(d, [s EXCEPT !.pc = "save", !.loaded = d.requests[s.rid],
                         !.doc = [d.requests[s.rid] EXCEPT !.vehicleInfo = s.vehicleInfo]])

\* InspectionRequest.findById, owner or admin, status pending, the new fields
UpdateFind(d, s, t) ==
  IF ~Exists(d, s.rid) THEN Fin(d, s, "NotFound")
  ELSE IF d.users[s.caller].role # "admin" /\ s.caller # d.requests[s.rid].userId
  THEN Fin(d, s, "Forbidden")
  ELSE IF d.requests[s.rid].status # "pending" THEN Fin(d, s, "BadRequest")
  ELSE Cont(d, [s EXCEPT !.pc = "save", !.loaded = d.requests[s.rid],
                         !.doc = [d.requests[s.rid] EXCEPT !.vehicleInfo = s.vehicleInfo]])

UpdateSave(d, s, t) == Fin(SaveRequest(d, s), s, "ok")

UpdateStep(d, s, t) ==
  CASE s.pc = "findRequest" -> UpdateFind(d, s, t)
    [] s.pc = "save" -> UpdateSave(d, s, t)

UpdateCall(rid, v, caller) ==
  [Call("updateRequest", "findRequest") EXCEPT
     !.rid = rid, !.vehicleInfo = v, !.caller = caller]

\* ------------------------------------------------------- startInspection
\* assignedInspectorId.toString() on a null reference is a TypeError, which
\* the catch block turns into a DatabaseError.
StartFind(d, s, t) ==
  IF ~Exists(d, s.rid) THEN Fin(d, s, "NotFound")
  ELSE IF d.requests[s.rid].assignedInspectorId = Null THEN Fin(d, s, "DatabaseError")
  ELSE IF d.requests[s.rid].assignedInspectorId # s.caller THEN Fin(d, s, "Forbidden")
  ELSE IF d.requests[s.rid].status \notin {"assigned", "pending"}
  THEN Fin(d, s, "BadRequest")
  ELSE IF d.requests[s.rid].inspectionStartTime # NoTime
  THEN Fin(d, s, "BadRequest")
  ELSE Cont(d, [s EXCEPT !.pc = "save", !.loaded = d.requests[s.rid],
                         !.doc = [d.requests[s.rid] EXCEPT
                                    !.status = "in_progress",
                                    !.inspectionStartTime = t]])

StartSave(d, s, t) == Fin(SaveRequest(d, s), s, "ok")

StartStep(d, s, t) ==
  CASE s.pc = "findRequest" -> StartFind(d, s, t)
    [] s.pc = "save" -> StartSave(d, s, t)

StartCall(rid, caller) ==
  [Call("startInspection", "findRequest") EXCEPT !.rid = rid, !.caller = caller]

\* ------------------------------------------------------ createInspection
\* status: { $in: ['assigned', 'in_progress', 'pending'] }
OpenStatuses == {"assigned", "in_progress", "pending"}

IsSubmitting(istatus) == istatus \in {"completed", "submitted"}

\* ChecklistTemplate.getActiveTemplate; s.valid says whether it finds one
CreateInspectionTemplate(d, s, t) ==
  IF ~s.valid THEN Fin(d, s, "NotFound")
  ELSE Cont(d, [s EXCEPT !.pc = "create"])

\* Inspection.create with the normalized types; the pre-save hook runs
CreateInspectionCreate(d, s, t) ==
  LET inspection == [inspectorId |-> s.caller, status |-> s.istatus,
                     types |-> CastTypes(s.types), overallRating |-> 0,
                     completedAt |-> NoTime]
      d2 == [d EXCEPT !.inspections = Append(@, PreSave(inspection, t))]
      s2 == [s EXCEPT !.iid = Len(d.inspections) + 1]
  IN  IF s.rid = 0 THEN Fin(d2, s2, "ok")
      ELSE Cont(d2, [s2 EXCEPT !.pc = "findRequest"])

\* one step of the clock, in milliseconds
MsPerTick == 500

\* Math.round(timeDiffMs / 1000)
TimeTaken(start, end) == ((end - start) * MsPerTick + 500) \div 1000

\* what createInspection sets on the request it found
LinkMutate(doc, iid, istatus, t) ==
  IF ~IsSubmitting(istatus) THEN [doc EXCEPT !.inspectionId = iid]
  ELSE [doc EXCEPT !.inspectionId = iid,
                   !.status = "completed",
                   !.inspectionEndTime = t,
                   !.timeTaken = IF doc.inspectionStartTime # NoTime
                                 THEN TimeTaken(doc.inspectionStartTime, t)
                                 ELSE doc.timeTaken]

\* InspectionRequest.findOne({ _id })
CreateInspectionFindById(d, s, t) ==
  IF ~Exists(d, s.rid) THEN Fin(d, s, "ok")
  ELSE Cont(d, [s EXCEPT !.pc = "save", !.loaded = d.requests[s.rid],
                         !.doc = LinkMutate(d.requests[s.rid], s.iid, s.istatus, t)])

\* InspectionRequest.findOne({ _id, assignedInspectorId, status: { $in: [...] } })
CreateInspectionFindRequest(d, s, t) ==
  LET found == /\ Exists(d, s.rid)
               /\ d.requests[s.rid].assignedInspectorId = s.caller
               /\ d.requests[s.rid].status \in OpenStatuses
  IN  IF ~found THEN Fin(d, s, "ok")
      ELSE Cont(d, [s EXCEPT !.pc = "save", !.loaded = d.requests[s.rid],
                             !.doc = LinkMutate(d.requests[s.rid], s.iid, s.istatus, t)])

CreateInspectionSave(d, s, t) == Fin(SaveRequest(d, s), s, "ok")

CreateInspectionStep(d, s, t) ==
  CASE s.pc = "template" -> CreateInspectionTemplate(d, s, t)
    [] s.pc = "create" -> CreateInspectionCreate(d, s, t)
    [] s.pc = "findRequest" -> CreateInspectionFindRequest(d, s, t)
    [] s.pc = "save" -> CreateInspectionSave(d, s, t)

CreateInspectionCall(rid, istatus, valid, caller) ==
  [Call("createInspection", "template") EXCEPT
     !.rid = rid, !.istatus = istatus, !.valid = valid, !.caller = caller]

\* ------------------------------------------------------ updateInspection
\* Inspection.findById, the author check, the draft check
UpdateInspectionFind(d, s, t) ==
  IF s.iid \notin 1..Len(d.inspections) THEN Fin(d, s, "NotFound")
  ELSE IF d.inspections[s.iid] = NoInspection THEN Fin(d, s, "NotFound")
  ELSE IF d.inspections[s.iid].inspectorId # s.caller THEN Fin(d, s, "Forbidden")
  ELSE IF d.inspections[s.iid].status # "draft" THEN Fin(d, s, "BadRequest")
  ELSE Cont(d, [s EXCEPT !.pc = "saveInspection"])

\* the fields assigned from updateData (types = <<>>: none given), then
\* inspection.save() with its pre-save hook
UpdateInspectionSave(d, s, t) ==
  LET inspection == d.inspections[s.iid]
      updated == [inspection EXCEPT
                    !.types = IF s.types # <<>> THEN CastTypes(s.types) ELSE @,
                    !.status = s.istatus]
      d2 == [d EXCEPT !.inspections[s.iid] = PreSave(updated, t)]
  IN  IF IsSubmitting(s.istatus)
      THEN Cont(d2, [s EXCEPT !.pc = "findRequest"])
      ELSE Fin(d2, s, "ok")

\* InspectionRequest.findOne({ inspectionId, assignedInspectorId, status: { $in: [...] } })
UpdateInspectionFindRequest(d, s, t) ==
  LET matches == {r \in 1..Len(d.requests) :
                    /\ d.requests[r].inspectionId = s.iid
                    /\ d.requests[r].assignedInspectorId = s.caller
                    /\ d.requests[r].status \in OpenStatuses}
  IN  IF matches = {} THEN Fin(d, s, "ok")
      ELSE LET r == CHOOSE x \in matches : \A y \in matches : x <= y
           IN  Cont(d, [s EXCEPT !.pc = "saveRequest", !.rid = r,
                                 !.loaded = d.requests[r],
                                 !.doc = [d.requests[r] EXCEPT !.status = "completed"]])

UpdateInspectionSaveRequest(d, s, t) == Fin(SaveRequest(d, s), s, "ok")

UpdateInspectionStep(d, s, t) ==
  CASE s.pc = "findInspection" -> UpdateInspectionFind(d, s, t)
    [] s.pc = "saveInspection" -> UpdateInspectionSave(d, s, t)
    [] s.pc = "findRequest" -> UpdateInspectionFindRequest(d, s, t)
    [] s.pc = "saveRequest" -> UpdateInspectionSaveRequest(d, s, t)

UpdateInspectionCall(iid, istatus, caller) ==
  [Call("updateInspection", "findInspection") EXCEPT
     !.iid = iid, !.istatus = istatus, !.caller = caller]

\* --------------------------------------------------------- createRequest
UserByEmail(us, email) == {u \in UserIds : us[u].exists /\ us[u].email = email}

FreeCustomerIds(us) == {i \in 1..Len(CustomerPool) : ~us[CustomerPool[i]].exists}

\* the unique index on userSchema.email
EmailTaken(us, email) == UserByEmail(us, email) # {}

\* the unique index on requestId
RequestIdTaken(rs, id) == \E r \in 1..Len(rs) : rs[r].requestId = id

\* User.findOne({ email }) without the blocked check
CreateRequestFindUserAnyStatus(d, s, t) ==
  LET found == UserByEmail(d.users, s.email)
  IN  IF found = {} THEN Cont(d, [s EXCEPT !.pc = "createUser"])
      ELSE Cont(d, [s EXCEPT !.pc = "nextSeq", !.ret = "create",
                             !.user = CHOOSE x \in found : TRUE])

\* User.findOne({ email }) and, for a user that exists, the blocked check
CreateRequestFindUser(d, s, t) ==
  LET found == UserByEmail(d.users, s.email)
  IN  IF found = {} THEN Cont(d, [s EXCEPT !.pc = "createUser"])
      ELSE LET u == CHOOSE x \in found : TRUE
           IN  IF d.users[u].status = "blocked" THEN Fin(d, s, "Forbidden")
               ELSE Cont(d, [s EXCEPT !.pc = "nextSeq", !.ret = "create", !.user = u])

\* User.create on a collection without the unique index on email
CreateRequestCreateUserNoIndex(d, s, t) ==
  IF FreeCustomerIds(d.users) = {} THEN Fin(d, s, "StoreFull")
  ELSE LET free == FreeCustomerIds(d.users)
           u == CustomerPool[CHOOSE x \in free : \A y \in free : x <= y]
       IN  Cont([d EXCEPT !.users[u] =
                   [exists |-> TRUE, email |-> s.email, role |-> "user",
                    status |-> "inactive", is_assigned |-> FALSE]],
                [s EXCEPT !.pc = "nextSeq", !.ret = "create", !.user = u])

\* User.create({ email, role: user, status: inactive }); a duplicate email is
\* error 11000, which lands in the outer catch of createRequest
CreateRequestCreateUser(d, s, t) ==
  IF EmailTaken(d.users, s.email) THEN Cont(d, [s EXCEPT !.pc = "catchFindUser"])
  ELSE IF FreeCustomerIds(d.users) = {} THEN Fin(d, s, "StoreFull")
  ELSE LET free == FreeCustomerIds(d.users)
           u == CustomerPool[CHOOSE x \in free : \A y \in free : x <= y]
       IN  Cont([d EXCEPT !.users[u] =
                   [exists |-> TRUE, email |-> s.email, role |-> "user",
                    status |-> "inactive", is_assigned |-> FALSE]],
                [s EXCEPT !.pc = "nextSeq", !.ret = "create", !.user = u])

\* the update written as { $set: { sequence: 1 } }
IncSequenceSet(c) == [exists |-> TRUE, sequence |-> 1]

\* { $inc: { sequence: 1 } } on the counter document, inserted when missing
IncSequence(c) == [exists |-> TRUE, sequence |-> c.sequence + 1]

\* the code that runs in createRequest once _getNextRequestId has returned:
\*   create      - the first id, InspectionRequest.create follows
\*   retry       - `requestId = newRequestId` assigns to a const: a TypeError,
\*                 which the outer catch wraps into a DatabaseError
\*   lastCreate  - the id of the last retry, InspectionRequest.create follows
\*   catchCreate - the id obtained in the outer catch
AfterNextSeq(s, seq) ==
  IF s.ret = "retry"
  THEN [s EXCEPT !.pc = "done", !.res = "DatabaseError", !.seq = seq]
  ELSE [s EXCEPT !.pc = s.ret, !.seq = seq,
                 !.requestId = GenerateRequestId(seq, s.vehicleInfo)]

\* the counter hands out its incremented value
Issue(d, s) ==
  LET c == IncSequence(d.counter)
  IN  Cont([d EXCEPT !.counter = c, !.issued = Append(@, c.sequence)],
           AfterNextSeq(s, c.sequence))

\* Counter.getNextSequence: findOneAndUpdate with upsert.  On an existing
\* counter document it is one atomic increment; when there is none the
\* server inserts one, and an insert that loses the race fails with 11000.
NextSeq(d, s, t) ==
  IF d.counter.exists THEN Issue(d, s)
  ELSE Cont(d, [s EXCEPT !.pc = "nextSeqInsert"])

NextSeqInsert(d, s, t) ==
  IF ~d.counter.exists THEN Issue(d, s)
  ELSE Cont(d, [s EXCEPT !.pc = "nextSeqRetry"])

\* the retry in the catch block of getNextSequence
NextSeqRetry(d, s, t) == Issue(d, s)

\* InspectionRequest.create
InsertRequest(d, s) ==
  Fin([d EXCEPT !.requests = Append(@, NewRequest(s.requestId, s.user, s.vehicleInfo))],
      [s EXCEPT !.rid = Len(d.requests) + 1], "ok")

\* InspectionRequest.create inside the retry loop, and its catch block
CreateRequestCreate(d, s, t) ==
  IF Len(s.requestId) > RequestIdMaxLen THEN Fin(d, s, "DatabaseError")
  ELSE IF ~RequestIdTaken(d.requests, s.requestId) THEN InsertRequest(d, s)
  ELSE IF s.pc = "lastCreate" THEN Cont(d, [s EXCEPT !.pc = "catchFindUser"])
  ELSE Cont(d, [s EXCEPT !.pc = "nextSeq", !.retries = s.retries - 1,
                         !.ret = IF s.retries - 1 = 0 THEN "lastCreate" ELSE "retry"])

\* outer catch, error.code === 11000: User.findOne({ email })
CreateRequestCatchFindUser(d, s, t) ==
  LET found == UserByEmail(d.users, s.email)
  IN  IF found = {} THEN Fin(d, s, "DatabaseError")
      ELSE Cont(d, [s EXCEPT !.pc = "nextSeq", !.ret = "catchCreate",
                             !.user = CHOOSE x \in found : TRUE])

\* outer catch: InspectionRequest.create; an error thrown here leaves
\* createRequest as it is
CreateRequestCatchCreate(d, s, t) ==
  IF Len(s.requestId) > RequestIdMaxLen THEN Fin(d, s, "ValidationError")
  ELSE IF RequestIdTaken(d.requests, s.requestId) THEN Fin(d, s, "MongoServerError")
  ELSE InsertRequest(d, s)

CreateRequestStep(d, s, t) ==
  CASE s.pc = "findUser" -> CreateRequestFindUser(d, s, t)
    [] s.pc = "createUser" -> CreateRequestCreateUser(d, s, t)
    [] s.pc = "nextSeq" -> NextSeq(d, s, t)
    [] s.pc = "nextSeqInsert" -> NextSeqInsert(d, s, t)
    [] s.pc = "nextSeqRetry" -> NextSeqRetry(d, s, t)
    [] s.pc \in {"create", "lastCreate"} -> CreateRequestCreate(d, s, t)
    [] s.pc = "catchFindUser" -> CreateRequestCatchFindUser(d, s, t)
    [] s.pc = "catchCreate" -> CreateRequestCatchCreate(d, s, t)

CreateRequestCall(email, v) ==
  [Call("createRequest", "findUser") EXCEPT
     !.email = email, !.vehicleInfo = v, !.retries = Retries]

\* ------------------------------------------------------ deleteInspection
\* Inspection.findById, the author check, the draft check
DeleteInspectionFindAnyStatus(d, s, t) ==
  IF s.iid \notin 1..Len(d.inspections) THEN Fin(d, s, "NotFound")
  ELSE IF d.inspections[s.iid] = NoInspection THEN Fin(d, s, "NotFound")
  ELSE IF d.inspections[s.iid].inspectorId # s.caller THEN Fin(d, s, "Forbidden")
  ELSE Cont(d, [s EXCEPT !.pc = "delete"])
DeleteInspectionFind(d, s, t) ==
  IF s.iid \notin 1..Len(d.inspections) THEN Fin(d, s, "NotFound")
  ELSE IF d.inspections[s.iid] = NoInspection THEN Fin(d, s, "NotFound")
  ELSE IF d.inspections[s.iid].inspectorId # s.caller THEN Fin(d, s, "Forbidden")
  ELSE IF d.inspections[s.iid].status # "draft" THEN Fin(d, s, "BadRequest")
  ELSE Cont(d, [s EXCEPT !.pc = "delete"])

\* Inspection.findByIdAndDelete
DeleteInspectionDelete(d, s, t) ==
  Fin([d EXCEPT !.inspections[s.iid] = NoInspection], s, "ok")

DeleteInspectionStep(d, s, t) ==
  CASE s.pc = "findInspection" -> DeleteInspectionFind(d, s, t)
    [] s.pc = "delete" -> DeleteInspectionDelete(d, s, t)

DeleteInspectionCall(iid, caller) ==
  [Call("deleteInspection", "findInspection") EXCEPT !.iid = iid, !.caller = caller]

\* ------------------------------------------------------------- execution
\* one step of the invocation with local state s
Step(d, s, t) ==
  CASE s.op = "assignInspector" -> AssignStep(d, s, t)
    [] s.op = "approveRequest" -> ApproveStep(d, s, t)
    [] s.op = "rejectRequest" -> RejectStep(d, s, t)
    [] s.op = "updateRequest" -> UpdateStep(d, s, t)
    [] s.op = "startInspection" -> StartStep(d, s, t)
    [] s.op = "createInspection" -> CreateInspectionStep(d, s, t)
    [] s.op = "updateInspection" -> UpdateInspectionStep(d, s, t)
    [] s.op = "deleteInspection" -> DeleteInspectionStep(d, s, t)
    [] s.op = "createRequest" -> CreateRequestStep(d, s, t)

\* the invocation runs alone until it returns or throws
RECURSIVE Run(_, _, _)
Run(d, s, t) ==
  IF s.pc = "done" THEN Cont(d, s)
  ELSE LET r == Step(d, s, t) IN Run(r.d, r.s, t)

\* what is kept of an invocation that has ended
Ended(s) == [IdleProc EXCEPT !.pc = "done", !.op = s.op, !.res = s.res,
                            !.rid = s.rid, !.target = s.target]

Store(d) ==
  /\ users' = d.users
  /\ counter' = d.counter
  /\ issued' = d.issued
  /\ requests' = d.requests
  /\ inspections' = d.inspections

Ready(p) == procs[p].pc \in {"idle", "done"}
Quiet == \A q \in Procs : Ready(q)

\* sequential execution: the handler called with s runs to its end
Handle(s) ==
  LET r == Run(DB, s, now)
  IN  /\ Store(r.d)
      /\ procs' = [procs EXCEPT ![1] = Ended(r.s)]
      /\ UNCHANGED <<now, connection>>

\* ------------------------------------------------- sequential execution
RequestIds == 1 .. MaxRequests
InspectionIds == 1 .. MaxInspections
AdminCallers == {"AD", "I1"}
AssignTargets == {"I1", "I2", "I3", "AD", "NX"}
InspectorCallers == {"I1", "I2"}
UpdateCallers == {"AD", "I1", CustomerPool[1]}

assignInspector(rid, target, caller) == Handle(AssignCall(rid, target, caller))
approveRequest(rid, caller) == Handle(ApproveCall(rid, caller))
rejectRequest(rid, reason, caller) == Handle(RejectCall(rid, reason, caller))
updateRequest(rid, v, caller) == Handle(UpdateCall(rid, v, caller))
startInspection(rid, caller) == Handle(StartCall(rid, caller))
createInspection(rid, istatus, valid, caller) ==
  Handle(CreateInspectionCall(rid, istatus, valid, caller))
updateInspection(iid, istatus, caller) == Handle(UpdateInspectionCall(iid, istatus, caller))
createRequest(email, v) == Handle(CreateRequestCall(email, v))

DoAssignInspector ==
  /\ Quiet
  /\ \E rid \in RequestIds, target \in AssignTargets, caller \in AdminCallers :
       assignInspector(rid, target, caller)

DoApproveRequest ==
  /\ Quiet
  /\ \E rid \in RequestIds, caller \in AdminCallers : approveRequest(rid, caller)

DoRejectRequest ==
  /\ Quiet
  /\ \E rid \in RequestIds, reason \in Reasons, caller \in AdminCallers :
       rejectRequest(rid, reason, caller)

DoUpdateRequest ==
  /\ Quiet
  /\ \E rid \in RequestIds, v \in Vehicles, caller \in UpdateCallers :
       users[caller].exists /\ updateRequest(rid, v, caller)

DoStartInspection ==
  /\ Quiet
  /\ \E rid \in RequestIds, caller \in InspectorCallers : startInspection(rid, caller)

DoCreateInspection ==
  /\ Quiet
  /\ Len(inspections) < MaxInspections
  /\ \E rid \in 0..MaxRequests, istatus \in InspectionStatuses, valid \in BOOLEAN,
        caller \in InspectorCallers :
       createInspection(rid, istatus, valid, caller)

DoUpdateInspection ==
  /\ Quiet
  /\ \E iid \in InspectionIds, istatus \in InspectionStatuses, caller \in InspectorCallers :
       updateInspection(iid, istatus, caller)

\* createRequest while the store holds fewer than n requests
CreateRequestUpTo(n) ==
  /\ Quiet
  /\ Len(requests) < n
  /\ Len(issued) + 2 <= MaxIssued
  /\ \E email \in Emails, v \in Vehicles : createRequest(email, v)

DoCreateRequest == CreateRequestUpTo(MaxRequests)

\* new Date() advances
Tick ==
  /\ now < MaxClock
  /\ now' = now + 1
  /\ UNCHANGED <<users, counter, issued, requests, inspections, procs, connection>>

Next ==
  \/ DoCreateRequest \/ DoUpdateRequest \/ DoAssignInspector \/ DoApproveRequest
  \/ DoRejectRequest \/ DoStartInspection \/ DoCreateInspection \/ DoUpdateInspection
  \/ Tick

Spec == Init /\ [][Next]_vars

\* two requests: the handlers that touch the inspector's is_assigned flag
\* or decide whether a request is open
RequestIds2 == 1 .. MaxCreated

AssignInspector2 ==
  /\ Quiet
  /\ \E rid \in RequestIds2, target \in InspectorCallers : assignInspector(rid, target, "AD")

RejectRequest2 ==
  /\ Quiet
  /\ \E rid \in RequestIds2, reason \in Reasons : rejectRequest(rid, reason, "AD")

StartInspection2 ==
  /\ Quiet
  /\ \E rid \in RequestIds2, caller \in InspectorCallers : startInspection(rid, caller)

CreateInspection2 ==
  /\ Quiet
  /\ Len(inspections) < MaxInspections
  /\ \E rid \in RequestIds2, istatus \in InspectionStatuses, caller \in InspectorCallers :
       createInspection(rid, istatus, TRUE, caller)

NextTwo ==
  \/ CreateRequestUpTo(MaxCreated) \/ AssignInspector2 \/ RejectRequest2
  \/ StartInspection2 \/ CreateInspection2 \/ DoUpdateInspection

SpecTwo == Init /\ [][NextTwo]_vars

\* an administrator resets the counter (Counter.resetCounter) while no
\* handler is running
ResetCounter ==
  /\ Quiet
  /\ counter' = [exists |-> TRUE, sequence |-> 0]
  /\ UNCHANGED <<users, issued, requests, inspections, now, procs, connection>>

\* ------------------------------------------------- concurrent execution
Running(op) == {q \in Procs : procs[q].op = op /\ ~Ready(q)}

\* invocation p takes the step r
Take(p, r) ==
  /\ Store(r.d)
  /\ procs' = [procs EXCEPT ![p] = IF r.s.pc = "done" THEN Ended(r.s) ELSE r.s]
  /\ UNCHANGED <<now, connection>>

\* the handler is called with s and takes its first step
Begin(p, s) == Take(p, Step(DB, s, now))

\* a handler that was called takes its next step
Advance(p) == Take(p, Step(DB, procs[p], now))

BeginCreateRequest(p) ==
  /\ Ready(p)
  /\ Len(requests) + Cardinality(Running("createRequest")) < MaxCreated
  /\ Len(issued) + 2 * (Cardinality(Running("createRequest")) + 1) <= MaxIssued
  /\ \E email \in Emails, v \in Vehicles : Begin(p, CreateRequestCall(email, v))

AdvanceCreateRequest(p) ==
  /\ ~Ready(p)
  /\ procs[p].op = "createRequest"
  /\ Advance(p)

BeginAssignInspector(p) ==
  /\ Ready(p)
  /\ \E rid \in RequestIds, target \in InspectorCallers :
       Begin(p, AssignCall(rid, target, "AD"))

AdvanceAssignInspector(p) ==
  /\ ~Ready(p)
  /\ procs[p].op = "assignInspector"
  /\ Advance(p)

BeginApproveRequest(p) ==
  /\ Ready(p)
  /\ \E rid \in RequestIds : Begin(p, ApproveCall(rid, "AD"))

AdvanceApproveRequest(p) ==
  /\ ~Ready(p)
  /\ procs[p].op = "approveRequest"
  /\ Advance(p)

BeginRejectRequest(p) ==
  /\ Ready(p)
  /\ \E rid \in RequestIds, reason \in Reasons : Begin(p, RejectCall(rid, reason, "AD"))

AdvanceRejectRequest(p) ==
  /\ ~Ready(p)
  /\ procs[p].op = "rejectRequest"
  /\ Advance(p)

BeginUpdateRequest(p) ==
  /\ Ready(p)
  /\ \E rid \in RequestIds, v \in Vehicles : Begin(p, UpdateCall(rid, v, "AD"))

AdvanceUpdateRequest(p) ==
  /\ ~Ready(p)
  /\ procs[p].op = "updateRequest"
  /\ Advance(p)

BeginStartInspection(p) ==
  /\ Ready(p)
  /\ \E rid \in RequestIds, caller \in InspectorCallers : Begin(p, StartCall(rid, caller))

AdvanceStartInspection(p) ==
  /\ ~Ready(p)
  /\ procs[p].op = "startInspection"
  /\ Advance(p)

BeginCreateInspection(p) ==
  /\ Ready(p)
  /\ Len(inspections) + Cardinality(Running("createInspection")) < MaxInspections
  /\ \E rid \in RequestIds, istatus \in InspectionStatuses, caller \in InspectorCallers :
       Begin(p, CreateInspectionCall(rid, istatus, TRUE, caller))

AdvanceCreateInspection(p) ==
  /\ ~Ready(p)
  /\ procs[p].op = "createInspection"
  /\ Advance(p)

BeginUpdateInspection(p) ==
  /\ Ready(p)
  /\ \E iid \in InspectionIds, istatus \in InspectionStatuses, caller \in InspectorCallers :
       Begin(p, UpdateInspectionCall(iid, istatus, caller))

AdvanceUpdateInspection(p) ==
  /\ ~Ready(p)
  /\ procs[p].op = "updateInspection"
  /\ Advance(p)

\* concurrent createRequest calls
NextCreate ==
  \E p \in Procs : BeginCreateRequest(p) \/ AdvanceCreateRequest(p)

SpecCreate == Init /\ [][NextCreate]_vars

\* createRequest calls, and an administrator resetting the counter between them
NextRetry == NextCreate \/ ResetCounter

SpecRetry == Init /\ [][NextRetry]_vars

\* two administrators assign inspectors to the request concurrently
NextAssignRace ==
  \/ DoCreateRequest
  \/ \E p \in Procs : BeginAssignInspector(p) \/ AdvanceAssignInspector(p)

SpecAssignRace == Init /\ [][NextAssignRace]_vars

\* an administrator rejects the request (invocation 2) while another
\* lifecycle handler (invocation 1) is running
NextConc ==
  \/ DoCreateRequest
  \/ BeginRejectRequest(2) \/ AdvanceRejectRequest(2)
  \/ BeginAssignInspector(1) \/ AdvanceAssignInspector(1)
  \/ BeginApproveRequest(1) \/ AdvanceApproveRequest(1)
  \/ BeginUpdateRequest(1) \/ AdvanceUpdateRequest(1)
  \/ BeginStartInspection(1) \/ AdvanceStartInspection(1)
  \/ BeginCreateInspection(1) \/ AdvanceCreateInspection(1)
  \/ BeginUpdateInspection(1) \/ AdvanceUpdateInspection(1)

SpecConc == Init /\ [][NextConc]_vars

\* ---------------------------------------------------- inspection records
\* Request bodies as the Joi schemas accept them: one or two types, each
\* with at least one item, a status of CHECKLIST_STATUS and a rating of
\* 0..5 on every item.  averageRating is what a caller of the service may
\* put on a type.
Items == {Item("Excellent", 5 * Scale), Item("Excellent", 2 * Scale),
          Item("Poor", 1 * Scale), Item("Fair", (5 * Scale) \div 2),
          Item("Not Checked", 0), Item("Not Applicable", 0),
          Item("Not Applicable", 4 * Scale)}

ItemLists(n) == UNION {[1..k -> Items] : k \in 1..n}

ClientAverages == {0, (21 * Scale) \div 5}

TypeOf(items) == [checklistItems |-> items, averageRating |-> 0]

MoreTypes ==
  {<<>>,
   <<TypeOf(<<Item("Poor", 1 * Scale), Item("Poor", 1 * Scale), Item("Poor", 1 * Scale)>>)>>,
   <<TypeOf(<<Item("Not Applicable", 4 * Scale)>>)>>}

Bodies(n, averages, others) ==
  {<<[checklistItems |-> items, averageRating |-> avg]>> \o more :
     items \in ItemLists(n), avg \in averages, more \in others}

\* the handler called with s runs to its end; the caller and the id of the
\* inspection are kept with the outcome
HandleAs(s) ==
  LET r == Run(DB, s, now)
  IN  /\ Store(r.d)
      /\ procs' = [procs EXCEPT ![1] = [Ended(r.s) EXCEPT !.caller = s.caller,
                                                         !.iid = r.s.iid]]
      /\ UNCHANGED <<now, connection>>

createInspectionData(istatus, caller, types) ==
  HandleAs([CreateInspectionCall(0, istatus, TRUE, caller) EXCEPT !.types = types])
updateInspectionData(iid, istatus, caller, types) ==
  HandleAs([UpdateInspectionCall(iid, istatus, caller) EXCEPT !.types = types])
deleteInspection(iid, caller) == HandleAs(DeleteInspectionCall(iid, caller))

DoCreateInspectionData ==
  /\ Quiet
  /\ Len(inspections) < MaxInspections
  /\ \E istatus \in InspectionStatuses, caller \in InspectorCallers,
        types \in Bodies(MaxItems, ClientAverages, MoreTypes) :
       createInspectionData(istatus, caller, types)

DoUpdateInspectionData ==
  /\ Quiet
  /\ \E iid \in InspectionIds, istatus \in InspectionStatuses,
        caller \in InspectorCallers, types \in Bodies(1, ClientAverages \ {0}, {<<>>}) \cup {<<>>} :
       updateInspectionData(iid, istatus, caller, types)

DoDeleteInspection ==
  /\ Quiet
  /\ \E iid \in InspectionIds, caller \in InspectorCallers :
       deleteInspection(iid, caller)

NextInspection ==
  DoCreateInspectionData \/ DoUpdateInspectionData \/ DoDeleteInspection

SpecInspection == Init /\ [][NextInspection]_vars

\* --------------------------------------------------- database connection
\* connectDB: nothing to do when readyState is 1, mongoose.connect otherwise
connectDB(c) == [c EXCEPT !.readyState = 1, !.connectCalled = TRUE]

\* initDB of a handler module
initDB(c) ==
  IF ~c.dbConnected THEN [connectDB(c) EXCEPT !.dbConnected = TRUE]
  ELSE [c EXCEPT !.connectCalled = FALSE]

\* A handler is invoked with the service call s: initDB, then the call.  On
\* a connection that is not open the first database operation is buffered:
\* either the driver reopens the connection by itself and the call runs, or
\* the buffering times out and the service's catch block throws a
\* DatabaseError.
Invoke(s) ==
  LET c == initDB(connection)
      r == Run(DB, s, now)
  IN  /\ \/ /\ Store(r.d)
            /\ procs' = [procs EXCEPT ![1] = Ended(r.s)]
            /\ connection' = [c EXCEPT !.readyState = 1]
         \/ /\ c.readyState # 1
            /\ procs' = [procs EXCEPT ![1] = Ended([s EXCEPT !.res = "DatabaseError"])]
            /\ connection' = c
            /\ UNCHANGED <<users, counter, issued, requests, inspections>>
      /\ UNCHANGED now

InvokeCreateRequest ==
  /\ Quiet
  /\ Len(requests) < MaxRequests
  /\ Len(issued) + 2 <= MaxIssued
  /\ \E email \in Emails, v \in Vehicles : Invoke(CreateRequestCall(email, v))

InvokeAssignInspector ==
  /\ Quiet
  /\ \E rid \in RequestIds, target \in InspectorCallers :
       Invoke(AssignCall(rid, target, "AD"))

InvokeRejectRequest ==
  /\ Quiet
  /\ \E rid \in RequestIds, reason \in Reasons : Invoke(RejectCall(rid, reason, "AD"))

\* the connection is closed from outside: an idle timeout, a network fault
Teardown ==
  /\ connection.readyState = 1
  /\ connection' = [connection EXCEPT !.readyState = 0]
  /\ UNCHANGED <<users, counter, issued, requests, inspections, now, procs>>

NextDB ==
  InvokeCreateRequest \/ InvokeAssignInspector \/ InvokeRejectRequest \/ Teardown

SpecDB == Init /\ [][NextDB]_vars

\* ------------------------------------------------------- long model names
\* vehicleInfo as the Joi schema of createRequest accepts it: make and
\* model of at most 50 characters
CamaroVector == [model |-> <<"C","a","m","a","r","o"," ","V","e","c","t","o","r">>,
                 make |-> <<"T","o","y","o","t","a">>]
CamaroVector7 == [model |-> <<"C","a","m","a","r","o"," ","V","e","c","t","o","r","7">>,
                  make |-> <<"T","o","y","o","t","a">>]
CamaroCometa == [model |-> <<"C","a","m","a","r","o"," ","V","e","c","t","o","r"," ","C","o","m","e","t","a"," ","2","0","0","0">>,
                 make |-> <<"v","w">>]
ValidVehicles == Vehicles \cup {CamaroVector, CamaroVector7, CamaroCometa}

DoCreateRequestValid ==
  /\ Quiet
  /\ Len(requests) < MaxCreated
  /\ Len(issued) + 2 <= MaxIssued
  /\ \E email \in Emails, v \in ValidVehicles : createRequest(email, v)

SpecValid == Init /\ [][DoCreateRequestValid]_vars

\* ------------------------------------------------------- failing calls
\* the is_assigned flags and the request as they are when a handler is called
Snapshot(rid) == [flags |-> [u \in UserIds |-> users[u].is_assigned],
                  request |-> requests[rid]]

CallAssignInspector(p) ==
  /\ Ready(p)
  /\ \E rid \in RequestIds, target \in InspectorCallers :
       /\ Exists(DB, rid)
       /\ Begin(p, [AssignCall(rid, target, "AD") EXCEPT !.before = Snapshot(rid)])

CallRejectRequest(p) ==
  /\ Ready(p)
  /\ \E rid \in RequestIds, reason \in Reasons :
       /\ Exists(DB, rid)
       /\ Begin(p, [RejectCall(rid, reason, "AD") EXCEPT !.before = Snapshot(rid)])

\* the database operation that assignInspector or rejectRequest awaits next
\* rejects: the catch block of the method throws a DatabaseError, and what
\* the method has written so far stays written
FailStep(p) ==
  /\ ~Ready(p)
  /\ procs[p].op \in {"assignInspector", "rejectRequest"}
  /\ procs' = [procs EXCEPT ![p] = Ended([procs[p] EXCEPT !.res = "DatabaseError"])]
  /\ UNCHANGED <<users, counter, issued, requests, inspections, now, connection>>

\* assignInspector and rejectRequest, one call at a time, with failing
\* database operations
NextFail ==
  \/ DoCreateRequest
  \/ CallAssignInspector(1) \/ AdvanceAssignInspector(1)
  \/ CallRejectRequest(1) \/ AdvanceRejectRequest(1)
  \/ FailStep(1)

SpecFail == Init /\ [][NextFail]_vars

\* ---------------------------------------------------------------- claims
TerminalStatuses == {"completed", "cancelled"}
ActiveStatuses == {"assigned", "in_progress"}
Inspectors == {u \in UserIds : users[u].role = "inspector"}

\* C1: once the status of a request is completed or cancelled, no operation
\* changes that status again (under Spec).
C1_TerminalStatusFinal ==
  [][\A r \in 1..Len(requests) :
       requests[r].status \in TerminalStatuses
         => requests'[r].status = requests[r].status]_vars

\* C2: a request has an assigned inspector if and only if its status is
\* assigned, in_progress or completed (under Spec).
C2_InspectorIffStatus ==
  \A r \in 1..Len(requests) :
    (requests[r].assignedInspectorId # Null)
      <=> (requests[r].status \in {"assigned", "in_progress", "completed"})

\* C3: after two assignInspector calls on the same request with different
\* inspectors have both finished, the request references one of the two,
\* and an inspector's is_assigned flag is true exactly if some request
\* references that inspector (under SpecAssignRace).
C3_RacingAssignsAgree ==
  \A p, q \in Procs :
    ( /\ p # q
      /\ procs[p].pc = "done" /\ procs[q].pc = "done"
      /\ procs[p].op = "assignInspector" /\ procs[q].op = "assignInspector"
      /\ procs[p].res = "ok" /\ procs[q].res = "ok"
      /\ procs[p].rid = procs[q].rid
      /\ procs[p].target # procs[q].target )
    => /\ requests[procs[p].rid].assignedInspectorId \in {procs[p].target, procs[q].target}
       /\ \A i \in Inspectors :
            users[i].is_assigned
              <=> (\E r \in 1..Len(requests) : requests[r].assignedInspectorId = i)

\* C4: an inspector's is_assigned flag is true if and only if the inspector
\* is the assigned inspector of at least one request whose status is
\* assigned or in_progress (under SpecTwo).
C4_FlagIffOpenRequest ==
  \A i \in Inspectors :
    users[i].is_assigned
      <=> (\E r \in 1..Len(requests) :
             /\ requests[r].assignedInspectorId = i
             /\ requests[r].status \in ActiveStatuses)

\* C5: no inspector is the assigned inspector of two different requests
\* that both have status assigned or in_progress (under SpecTwo).
C5_SingleActiveAssignment ==
  \A r1, r2 \in 1..Len(requests) :
    ( /\ r1 # r2
      /\ requests[r1].status \in ActiveStatuses
      /\ requests[r2].status \in ActiveStatuses
      /\ requests[r1].assignedInspectorId # Null )
    => requests[r1].assignedInspectorId # requests[r2].assignedInspectorId

\* C6: concurrent createRequest calls each obtain a different value from
\* the counter: the values are issued in strictly increasing order, two
\* calls in flight never hold the same value, and the persisted requests
\* have pairwise distinct requestIds with pairwise distinct embedded
\* sequence numbers, each of them a value the counter issued (under
\* SpecCreate).
C6_SequenceUnique ==
  /\ \A i, j \in 1..Len(issued) : i < j => issued[i] < issued[j]
  /\ \A p, q \in Procs :
       (p # q /\ procs[p].seq # 0 /\ procs[q].seq # 0) => procs[p].seq # procs[q].seq
  /\ \A r1, r2 \in 1..Len(requests) :
       r1 # r2 => /\ requests[r1].requestId # requests[r2].requestId
                  /\ EmbeddedSeq(requests[r1].requestId) # EmbeddedSeq(requests[r2].requestId)
  /\ \A r \in 1..Len(requests) :
       \E i \in 1..Len(issued) : issued[i] = EmbeddedSeq(requests[r].requestId)

\* two calls in flight each hold a value of the counter: one is about to
\* insert its request, the other is about to insert in its catch block,
\* after losing the race for the user's email
C6_Witness ==
  \E p, q \in Procs :
    /\ procs[p].op = "createRequest" /\ procs[p].pc = "create"
    /\ procs[q].op = "createRequest" /\ procs[q].pc = "catchCreate"
    /\ procs[p].seq # 0 /\ procs[q].seq # 0

\* C7: a createRequest call whose insert has collided on the requestId
\* goes on with a freshly issued sequence number: while attempts remain it
\* ends only by succeeding, and once they are exhausted it ends by
\* succeeding or with a Conflict error (under SpecRetry).
C7_RetryOnCollision ==
  [][\A p \in Procs :
       ( /\ procs[p].op = "createRequest"
         /\ ~Ready(p)
         /\ procs[p].retries < Retries
         /\ procs'[p].pc = "done" )
       => IF procs[p].retries > 0
          THEN procs'[p].res = "ok"
          ELSE procs'[p].res \in {"ok", "Conflict"}]_vars

\* C8: a handler other than rejectRequest that has read a request whose
\* status was not cancelled, and that takes a step after a concurrent
\* rejectRequest has cancelled the request, leaves the request as it is
\* (under SpecConc).
C8_NoLateWriteOnCancelled ==
  [][\A p \in Procs :
       ( /\ ~Ready(p)
         /\ procs[p].op # "rejectRequest"
         /\ procs[p].loaded.requestId # <<>>
         /\ procs[p].loaded.status # "cancelled"
         /\ requests[procs[p].rid].status = "cancelled"
         /\ procs'[p] # procs[p] )
       => requests'[procs[p].rid] = requests[procs[p].rid]]_vars

\* C9: approveRequest on a request that is not pending fails (with
\* BadRequest for an administrator) and leaves every request and user as
\* it is; on a pending request, called by an administrator, it succeeds,
\* sets adminApprovedAt to the current time and changes nothing else, so
\* the status stays pending (under Spec).
C9_ApproveOnlyPending ==
  [][\A rid \in RequestIds, caller \in AdminCallers :
       (rid <= Len(requests) /\ approveRequest(rid, caller))
       => IF requests[rid].status # "pending"
          THEN /\ procs'[1].res # "ok"
               /\ (users[caller].role = "admin" => procs'[1].res = "BadRequest")
               /\ requests' = requests
               /\ users' = users
          ELSE users[caller].role = "admin"
               => /\ procs'[1].res = "ok"
                  /\ requests'[rid] = [requests[rid] EXCEPT !.adminApprovedAt = now]
                  /\ requests'[rid].adminApprovedAt # NoTime
                  /\ requests'[rid].status = "pending"]_vars

\* a request that was approved while pending is no longer pending, and an
\* administrator's approveRequest on it has just failed
C9_Witness ==
  /\ procs[1].pc = "done"
  /\ procs[1].op = "approveRequest"
  /\ procs[1].res = "BadRequest"
  /\ Len(requests) >= 1
  /\ requests[1].status # "pending"
  /\ requests[1].adminApprovedAt # NoTime

\* C10: assignInspector on a completed or cancelled request fails and
\* changes neither the request's assignedInspectorId and assignedAt nor
\* any user's is_assigned flag (under Spec).
C10_NoAssignOnTerminal ==
  [][\A rid \in RequestIds, target \in AssignTargets, caller \in AdminCallers :
       ( /\ rid <= Len(requests)
         /\ requests[rid].status \in TerminalStatuses
         /\ assignInspector(rid, target, caller) )
       => /\ procs'[1].res # "ok"
          /\ requests'[rid].assignedInspectorId = requests[rid].assignedInspectorId
          /\ requests'[rid].assignedAt = requests[rid].assignedAt
          /\ \A u \in UserIds : users'[u].is_assigned = users[u].is_assigned]_vars

C12_AssignBadTarget ==
  [][\A rid \in RequestIds, target \in AssignTargets :
       ( /\ rid <= Len(requests)
         /\ assignInspector(rid, target, "AD")
         /\ \/ ~users[target].exists
            \/ users[target].role # "inspector"
            \/ users[target].status # "active" )
       => /\ procs'[1].res = IF users[target].exists THEN "BadRequest" ELSE "NotFound"
          /\ requests' = requests
          /\ users' = users]_vars

\* the request is assigned to I1, who is marked busy, and an assignment of
\* the inactive inspector I3 has just failed
C12_Witness ==
  /\ procs[1].pc = "done" /\ procs[1].op = "assignInspector"
  /\ procs[1].res = "BadRequest" /\ procs[1].target = "I3"
  /\ Len(requests) >= 1
  /\ requests[1].assignedInspectorId = "I1"
  /\ users["I1"].is_assigned

\* C13: startInspection succeeds only on a request that is pending or
\* assigned and has no inspectionStartTime; a successful call stores status
\* in_progress and an inspectionStartTime; a call on a request that is
\* already in progress fails with BadRequest and leaves the request as it
\* was (under Spec).
C13_StartOnce ==
  [][\A rid \in RequestIds, caller \in InspectorCallers :
       (rid <= Len(requests) /\ startInspection(rid, caller))
       => /\ procs'[1].res = "ok"
               => /\ requests[rid].status \in {"pending", "assigned"}
                  /\ requests[rid].inspectionStartTime = NoTime
                  /\ requests'[rid].status = "in_progress"
                  /\ requests'[rid].inspectionStartTime # NoTime
          /\ (requests[rid].status = "in_progress"
                /\ requests[rid].assignedInspectorId = caller)
               => /\ procs'[1].res = "BadRequest"
                  /\ requests'[rid] = requests[rid]]_vars

\* C14: startInspection called by an inspector who is not the assigned
\* inspector of the request, also when the request has no assigned
\* inspector, fails with Forbidden and leaves the request as it was
\* (under Spec).
C14_StartForbidden ==
  [][\A rid \in RequestIds, caller \in InspectorCallers :
       ( /\ rid <= Len(requests)
         /\ requests[rid].assignedInspectorId # caller
         /\ startInspection(rid, caller) )
       => /\ procs'[1].res = "Forbidden"
          /\ requests'[rid] = requests[rid]]_vars

\* C15: when an inspection record is created as completed or submitted for
\* a request, or a draft is updated to completed or submitted, the request
\* linked to the record that is assigned to the submitting inspector and
\* is pending, assigned or in_progress becomes completed, gets an
\* inspectionEndTime, and its inspectionId is the record (under Spec).
C15_SubmissionCompletes ==
  [][/\ \A rid \in RequestIds, istatus \in InspectionStatuses, caller \in InspectorCallers :
          ( /\ rid <= Len(requests)
            /\ IsSubmitting(istatus)
            /\ requests[rid].assignedInspectorId = caller
            /\ requests[rid].status \in OpenStatuses
            /\ createInspection(rid, istatus, TRUE, caller) )
          => /\ requests'[rid].status = "completed"
             /\ requests'[rid].inspectionEndTime # NoTime
             /\ requests'[rid].inspectionId = Len(inspections')
     /\ \A iid \in InspectionIds, istatus \in InspectionStatuses, caller \in InspectorCallers :
          ( /\ IsSubmitting(istatus)
            /\ updateInspection(iid, istatus, caller)
            /\ procs'[1].res = "ok" )
          => \A r \in 1..Len(requests) :
               ( /\ requests[r].inspectionId = iid
                 /\ requests[r].assignedInspectorId = caller
                 /\ requests[r].status \in OpenStatuses )
               => /\ requests'[r].status = "completed"
                  /\ requests'[r].inspectionEndTime # NoTime
                  /\ requests'[r].inspectionId = iid]_vars

\* C16: a completing submission for a request that was started (it is
\* in_progress) stores status completed and a timeTaken that is the
\* non-negative whole number of seconds between the stored
\* inspectionStartTime and inspectionEndTime; a completing submission for
\* a request that was not started leaves timeTaken unset (under Spec).
C16_TimeTaken ==
  [][\A rid \in RequestIds, istatus \in InspectionStatuses, caller \in InspectorCallers :
       ( /\ rid <= Len(requests)
         /\ IsSubmitting(istatus)
         /\ requests[rid].assignedInspectorId = caller
         /\ requests[rid].status \in OpenStatuses
         /\ createInspection(rid, istatus, TRUE, caller) )
       => /\ requests'[rid].status = "completed"
          /\ IF requests[rid].status = "in_progress"
             THEN /\ requests'[rid].inspectionStartTime # NoTime
                  /\ requests'[rid].inspectionEndTime # NoTime
                  /\ requests'[rid].timeTaken # NoTime
                  /\ requests'[rid].timeTaken >= 0
                  /\ LET ms == (requests'[rid].inspectionEndTime
                                  - requests'[rid].inspectionStartTime) * MsPerTick
                         d == requests'[rid].timeTaken * 1000 - ms
                     IN  d <= 500 /\ -500 < d
             ELSE requests'[rid].timeTaken = NoTime]_vars

\* C17: rejectRequest by an administrator on a request that is pending,
\* assigned or in_progress succeeds and stores status cancelled and the
\* time of the call as cancelledAt; on a request that is already cancelled
\* it fails with BadRequest and leaves every request, with its cancelledAt
\* and cancelledReason, and every user as it was (under Spec).
C17_RejectOnce ==
  [][\A rid \in RequestIds, reason \in Reasons :
       (rid <= Len(requests) /\ rejectRequest(rid, reason, "AD"))
       => /\ requests[rid].status = "cancelled"
               => /\ procs'[1].res = "BadRequest"
                  /\ requests' = requests
                  /\ users' = users
          /\ requests[rid].status \in OpenStatuses
               => /\ procs'[1].res = "ok"
                  /\ requests'[rid].status = "cancelled"
                  /\ requests'[rid].cancelledAt = now
                  /\ requests'[rid].cancelledReason = reason]_vars

\* a second rejectRequest has just failed at a later time than the first,
\* whose cancelledAt the request still carries
C17_Witness ==
  /\ procs[1].pc = "done" /\ procs[1].op = "rejectRequest"
  /\ procs[1].res = "BadRequest"
  /\ Len(requests) >= 1
  /\ requests[1].status = "cancelled"
  /\ requests[1].cancelledAt # NoTime
  /\ requests[1].cancelledAt < now

\* C18: updateRequest succeeds exactly when the caller is the owner of the
\* request or an administrator and the request is pending; a caller who is
\* neither gets Forbidden, an owner or administrator of a request that is
\* not pending gets BadRequest, and a failed call leaves every request as
\* it was; a successful call stores the new vehicle information and
\* changes nothing else of the request, so status, assignedInspectorId and
\* requestId stay (under Spec).
C18_UpdateOnlyPending ==
  [][\A rid \in RequestIds, v \in Vehicles, caller \in UpdateCallers :
       (rid <= Len(requests) /\ users[caller].exists /\ updateRequest(rid, v, caller))
       => LET entitled == users[caller].role = "admin" \/ caller = requests[rid].userId
              pending == requests[rid].status = "pending"
          IN  /\ (procs'[1].res = "ok") <=> (entitled /\ pending)
              /\ ~entitled => procs'[1].res = "Forbidden"
              /\ (entitled /\ ~pending) => procs'[1].res = "BadRequest"
              /\ procs'[1].res # "ok" => requests' = requests
              /\ procs'[1].res = "ok"
                   => /\ requests'[rid] = [requests[rid] EXCEPT !.vehicleInfo = v]
                      /\ requests'[rid].status = requests[rid].status
                      /\ requests'[rid].assignedInspectorId = requests[rid].assignedInspectorId
                      /\ requests'[rid].requestId = requests[rid].requestId]_vars

\* a successful update has replaced the vehicle of a pending request, whose
\* requestId still is the one generated from the vehicle it was created with
C18_Witness ==
  /\ procs[1].pc = "done" /\ procs[1].op = "updateRequest" /\ procs[1].res = "ok"
  /\ Len(requests) >= 1
  /\ requests[1].status = "pending"
  /\ requests[1].requestId
       # GenerateRequestId(EmbeddedSeq(requests[1].requestId), requests[1].vehicleInfo)

\* C19: when a call of assignInspector or rejectRequest ends with an error,
\* it is not the case that some user's is_assigned flag differs from what
\* it was when the call began while the request still has the status and
\* the assignedInspectorId it had then (under SpecFail).
C19_NoPartialCommit ==
  [][\A p \in Procs :
       ( /\ ~Ready(p)
         /\ procs[p].op \in {"assignInspector", "rejectRequest"}
         /\ procs[p].before # NoSnapshot
         /\ procs'[p].pc = "done"
         /\ procs'[p].res # "ok" )
       => ~( /\ \E u \in UserIds : users'[u].is_assigned # procs[p].before.flags[u]
             /\ requests'[procs[p].rid].status = procs[p].before.request.status
             /\ requests'[procs[p].rid].assignedInspectorId
                  = procs[p].before.request.assignedInspectorId )]_vars

\* C20: createRequest for the email of a user whose status is blocked fails
\* with Forbidden, persists no request, and leaves the counter, the values
\* it has issued and every user as they were (under SpecTwo).
C20_BlockedUser ==
  [][\A email \in Emails, v \in Vehicles :
       ( /\ createRequest(email, v)
         /\ \E u \in UserIds : /\ users[u].exists
                               /\ users[u].email = email
                               /\ users[u].status = "blocked" )
       => /\ procs'[1].res = "Forbidden"
          /\ requests' = requests
          /\ counter' = counter
          /\ issued' = issued
          /\ users' = users]_vars

\* after one request was created, a createRequest for the blocked user's
\* email has just failed, and the counter still is at its first value
C20_Witness ==
  /\ procs[1].pc = "done" /\ procs[1].op = "createRequest"
  /\ procs[1].res = "Forbidden"
  /\ Len(requests) = 1
  /\ issued = <<1>>
  /\ counter.sequence = 1


\* C21: each lifecycle timestamp of a request (assignedAt, adminApprovedAt,
\* inspectionStartTime, inspectionEndTime, cancelledAt) is written at most
\* once: once a stored request holds a value for it, no later step stores
\* another value (under Spec).
C21_TimestampsOnce ==
  [][\A rid \in RequestIds :
       rid <= Len(requests)
       => \A f \in {"assignedAt", "adminApprovedAt", "inspectionStartTime",
                    "inspectionEndTime", "cancelledAt"} :
            requests[rid][f] # NoTime => requests'[rid][f] = requests[rid][f]]_vars


\* the ratings of the items of a type that count for its average
RatedItems(typeInspection) ==
  {j \in 1..Len(typeInspection.checklistItems) :
     typeInspection.checklistItems[j].status
       \notin {"Not Checked", "Not Applicable"}}

RECURSIVE SumOver(_, _)
SumOver(S, f) ==
  IF S = {} THEN 0
  ELSE LET x == CHOOSE y \in S : TRUE IN f[x] + SumOver(S \ {x}, f)

\* v is total / n rounded to the nearest whole number (of hundredths)
IsRounded(v, total, n) == 2 * total - n <= 2 * n * v /\ 2 * n * v <= 2 * total + n

StoredInspections ==
  {i \in 1..Len(inspections) : inspections[i] # NoInspection}

\* C22: in every stored inspection record, after every create and every
\* update, each type's averageRating is the mean, rounded to 2 decimal
\* places, of the ratings of its items whose status is neither Not Checked
\* nor Not Applicable, and 0 when the type has no such item, whatever
\* averageRating the request body carried (under SpecInspection).
C22_TypeAverage ==
  \A i \in StoredInspections :
    \A k \in 1..Len(inspections[i].types) :
      LET ty == inspections[i].types[k]
          rated == RatedItems(ty)
          ratings == [j \in rated |-> ty.checklistItems[j].rating]
      IN  IF rated = {} THEN ty.averageRating = 0
          ELSE IsRounded(ty.averageRating, SumOver(rated, ratings),
                         Cardinality(rated))

\* an update has stored a type with one rated item of rating 2.00 and some
\* excluded item; and a create has stored a type with no rated item
C22_Witness ==
  /\ StoredInspections # {}
  /\ procs[1].op = "updateInspection" /\ procs[1].res = "ok"
  /\ \E k \in 1..Len(inspections[1].types) :
       /\ inspections[1].types[k].checklistItems = <<Item("Excellent", 2 * Scale)>>
       /\ inspections[1].types[k].averageRating = 2 * Scale
  /\ \E k \in 1..Len(inspections[1].types) :
       /\ RatedItems(inspections[1].types[k]) = {}
       /\ Len(inspections[1].types[k].checklistItems) > 0


\* C23: a stored record's overallRating is the mean of its types'
\* averageRating values, each type counted once however many items it has,
\* rounded to 2 decimal places; a type of average 5.00 from one item and a
\* type of average 1.00 from three items give 3.00 (under SpecInspection).
C23_OverallRating ==
  \A i \in StoredInspections :
    LET types == inspections[i].types
        averages == [k \in 1..Len(types) |-> types[k].averageRating]
    IN  /\ IsRounded(inspections[i].overallRating,
                     SumOver(1..Len(types), averages), Len(types))
        /\ ( /\ Len(types) = 2
             /\ averages = <<5 * Scale, 1 * Scale>>
             /\ Len(types[1].checklistItems) = 1
             /\ Len(types[2].checklistItems) = 3 )
           => inspections[i].overallRating = 3 * Scale

\* a record with one item rated 5.00 in its first type and three items
\* rated 1.00 in its second has been created
C23_Witness ==
  /\ StoredInspections # {}
  /\ procs[1].op = "createInspection" /\ procs[1].res = "ok"
  /\ Len(inspections[1].types) = 2
  /\ inspections[1].types[1].checklistItems = <<Item("Excellent", 5 * Scale)>>
  /\ inspections[1].types[2].checklistItems
       = <<Item("Poor", 1 * Scale), Item("Poor", 1 * Scale), Item("Poor", 1 * Scale)>>
  /\ inspections[1].overallRating = 3 * Scale


\* C24: what a rated item contributes to its type's average is the weight
\* of its status in STATUS_RATING_MAP, whatever rating number came with it:
\* every stored type's averageRating is the rounded mean of the weights of
\* the statuses of its rated items, 3.00 for [Excellent, Poor, Not Checked],
\* and 0 for a type whose items are all excluded (under SpecInspection).
C24_StatusWeights ==
  \A i \in StoredInspections :
    \A k \in 1..Len(inspections[i].types) :
      LET ty == inspections[i].types[k]
          rated == RatedItems(ty)
          weights == [j \in rated |-> STATUS_RATING_MAP[ty.checklistItems[j].status]]
      IN  IF rated = {} THEN ty.averageRating = 0
          ELSE IsRounded(ty.averageRating, SumOver(rated, weights),
                         Cardinality(rated))


\* C25: once a stored inspection record is completed or submitted, every
\* updateInspection and deleteInspection on it fails and leaves the record
\* as it was; an updateInspection or deleteInspection that succeeds acts on
\* a draft record and is called by the inspector who created it; a record
\* changes by no other call (under SpecInspection).
C25_OnlyDraftsChange ==
  [][\A iid \in InspectionIds :
       (iid <= Len(inspections) /\ inspections[iid] # NoInspection)
       => /\ inspections[iid].status \in {"completed", "submitted"}
               => /\ inspections'[iid] = inspections[iid]
                  /\ (procs'[1].op \in {"updateInspection", "deleteInspection"}
                        /\ procs'[1].iid = iid)
                       => procs'[1].res \in {"BadRequest", "Forbidden"}
          /\ (procs'[1].op \in {"updateInspection", "deleteInspection"}
                /\ procs'[1].iid = iid
                /\ procs'[1].res = "ok")
               => /\ inspections[iid].status = "draft"
                  /\ procs'[1].caller = inspections[iid].inspectorId
          /\ inspections'[iid] # inspections[iid]
               => /\ procs'[1].op \in {"updateInspection", "deleteInspection"}
                  /\ procs'[1].iid = iid
                  /\ procs'[1].res = "ok"]_vars

\* a deleteInspection by its creator has just been refused on a completed
\* record
C25_Witness ==
  /\ StoredInspections # {}
  /\ inspections[1].status = "completed"
  /\ inspections[1].completedAt # NoTime
  /\ procs[1].op = "deleteInspection"
  /\ procs[1].res = "BadRequest"
  /\ procs[1].caller = inspections[1].inspectorId


C27_RecheckAfterTeardown ==
  [][(connection.readyState # 1 /\ connection.dbConnected)
       => (connection'.connectCalled /\ connection'.readyState = 1)]_vars


\* C28: with createRequest calls running concurrently, among them calls for
\* the same email that no user has yet, no two user documents have the
\* same email, and every call for an email of no blocked user returns a
\* newly stored request that is pending, is owned by the one user with that
\* email, and has a requestId no other stored request has (under
\* SpecCreate).
C28_OneUserTwoRequests ==
  /\ [](\A u1, u2 \in UserIds :
          (users[u1].exists /\ users[u2].exists /\ users[u1].email # Null
             /\ users[u1].email = users[u2].email) => u1 = u2)
  /\ [][\A p \in Procs :
          ( /\ ~Ready(p)
            /\ procs[p].op = "createRequest"
            /\ procs[p].email # "eb"
            /\ procs'[p].pc = "done" )
          => /\ procs'[p].res = "ok"
             /\ Len(requests') = Len(requests) + 1
             /\ procs'[p].rid = Len(requests')
             /\ LET r == requests'[Len(requests')]
                IN  /\ r.status = "pending"
                    /\ users'[r.userId].exists
                    /\ users'[r.userId].email = procs[p].email
                    /\ \A q \in 1..Len(requests) :
                         requests[q].requestId # r.requestId]_vars

\* two calls for the email e1, which no user had: the one that lost the
\* race for the user document is about to insert its request in the catch
\* block, for the user the other call created and already owns a request of
C28_Witness ==
  \E p, q \in Procs :
    /\ p # q
    /\ procs[p].op = "createRequest" /\ procs[p].pc = "catchCreate"
    /\ procs[p].email = "e1"
    /\ procs[q].op = "createRequest" /\ procs[q].pc = "done" /\ procs[q].res = "ok"
    /\ Len(requests) = 1
    /\ requests[1].userId = procs[p].user
    /\ Cardinality(UserByEmail(users, "e1")) = 1


\* C29: for every vehicleInfo the input validation accepts, the requestId
\* that createRequest generates has at most 20 characters, and a
\* createRequest call for an email of no blocked user, running alone,
\* succeeds and stores a request with that id (under SpecValid).
C29_RequestIdFits ==
  [][\A email \in Emails, v \in ValidVehicles :
       (email # "eb" /\ Quiet /\ createRequest(email, v))
       => /\ procs'[1].res = "ok"
          /\ Len(requests') = Len(requests) + 1
          /\ Len(requests'[Len(requests')].requestId) <= RequestIdMaxLen
          /\ \E i \in 1..Len(issued') :
               requests'[Len(requests')].requestId = GenerateRequestId(issued'[i], v)]_vars


\* C30: createInspection with the id of a request that is not assigned to
\* the calling inspector, or that is completed or cancelled, and with a
\* template that exists, stores the inspection record and leaves the
\* request as it was (under Spec).
C30_ForeignRequestUntouched ==
  [][\A rid \in RequestIds, istatus \in InspectionStatuses, caller \in InspectorCallers :
       ( /\ rid <= Len(requests)
         /\ \/ requests[rid].assignedInspectorId # caller
            \/ requests[rid].status \in {"completed", "cancelled"}
         /\ procs'[1].op = "createInspection"
         /\ createInspection(rid, istatus, TRUE, caller) )
       => /\ procs'[1].res = "ok"
          /\ Len(inspections') = Len(inspections) + 1
          /\ inspections'[Len(inspections')].inspectorId = caller
          /\ inspections'[Len(inspections')].status = istatus
          /\ requests' = requests]_vars

\* a submitted inspection record has been created by I2 for a request that
\* is assigned to I1, and the request is still assigned, without inspection
C30_Witness ==
  /\ Len(requests) >= 1 /\ Len(inspections) >= 1
  /\ procs[1].op = "createInspection" /\ procs[1].res = "ok" /\ procs[1].rid = 1
  /\ inspections[1].inspectorId = "I2" /\ inspections[1].status = "submitted"
  /\ requests[1].assignedInspectorId = "I1"
  /\ requests[1].status = "assigned"
  /\ requests[1].inspectionId = 0

====
